---- MODULE Spec2Model ----
(***************************************************************************)
(* A model of generate_svg (src/main.py): the pipeline that fetches a      *)
(* boundary and its sub-areas, filters them, clips them to a land mask,    *)
(* computes the bounding box, serializes every sub-area as an SVG path     *)
(* with an identifier and a label, and writes the document.                *)
(*                                                                         *)
(* Geometry lives on an integer grid.  A polygon is an axis-parallel       *)
(* rectangle with rectangular holes; the library calls the program makes   *)
(* (is_empty, geom_type, representative_point, within, intersection,       *)
(* to_crs, total_bounds, centroid) are computed on that grid.  Numbers     *)
(* the program computes in floating point are exact rationals extended     *)
(* with nan and the infinities, because the program divides numpy floats   *)
(* and a division by zero yields inf or nan there, not an exception.       *)
(***************************************************************************)
EXTENDS Integers, Sequences, FiniteSets, TLC

\* Longest sequence of candidate sub-areas a fetch returns.
MaxWards == 2
\* Largest grid coordinate of the input geometries (longitude/latitude).
MaxCoord == 3

(***************************************************************************)
(* Floating point values: a rational n/d in lowest terms, nan, or +-inf.   *)
(***************************************************************************)
RECURSIVE Gcd(_, _)
Gcd(a, b) == IF b = 0 THEN a ELSE Gcd(b, a % b)

Abs(a) == IF a < 0 THEN -a ELSE a

Sign(a) == IF a < 0 THEN -1 ELSE IF a = 0 THEN 0 ELSE 1

NaN == [k |-> "nan", n |-> 0, d |-> 1]

Inf(s) == [k |-> "inf", n |-> s, d |-> 1]

\* The float n/d, d # 0.
Num(n, d) ==
    LET g == Gcd(Abs(n), Abs(d))
        s == IF d < 0 THEN -1 ELSE 1
    IN  [k |-> "num", n |-> s * (n \div g), d |-> s * (d \div g)]

FSub(a, b) ==
    IF a.k = "nan" \/ b.k = "nan" THEN NaN
    ELSE IF a.k = "inf" /\ b.k = "inf" THEN (IF a.n = b.n THEN NaN ELSE a)
    ELSE IF a.k = "inf" THEN a
    ELSE IF b.k = "inf" THEN Inf(-b.n)
    ELSE Num(a.n * b.d - b.n * a.d, a.d * b.d)

FMul(a, b) ==
    IF a.k = "nan" \/ b.k = "nan" THEN NaN
    ELSE IF a.k = "inf" \/ b.k = "inf"
         THEN (IF Sign(a.n) * Sign(b.n) = 0 THEN NaN ELSE Inf(Sign(a.n) * Sign(b.n)))
    ELSE Num(a.n * b.n, a.d * b.d)

\* numpy float64 division: x/0 is +-inf, 0/0 is nan, with a warning and no exception.
FDiv(a, b) ==
    IF a.k = "nan" \/ b.k = "nan" THEN NaN
    ELSE IF a.k = "inf" /\ b.k = "inf" THEN NaN
    ELSE IF a.k = "inf" THEN Inf(IF b.n < 0 THEN -a.n ELSE a.n)
    ELSE IF b.k = "inf" THEN Num(0, 1)
    ELSE IF b.n = 0 THEN (IF a.n = 0 THEN NaN ELSE Inf(Sign(a.n)))
    ELSE Num(a.n * b.d, a.d * b.n)

FLe(a, b) == a.k = "num" /\ b.k = "num" /\ a.n * b.d <= b.n * a.d

\* The format specification :.2f : the value in hundredths, rounded to the
\* nearest (ties to even); nan and inf print as such.
Fmt2f(a) ==
    IF a.k # "num" THEN [k |-> a.k, v |-> a.n]
    ELSE LET whole == a.n \div a.d
             rest == a.n % a.d
             q == 100 * whole + ((100 * rest) \div a.d)
             r == (100 * rest) % a.d
         IN  [k |-> "num",
              v |-> IF 2 * r > a.d THEN q + 1
                    ELSE IF 2 * r = a.d THEN q + (q % 2)
                    ELSE q]

(***************************************************************************)
(* Sequences.                                                              *)
(***************************************************************************)
RECURSIVE Flatten(_)
Flatten(ss) == IF ss = <<>> THEN <<>> ELSE Head(ss) \o Flatten(Tail(ss))

SetMin(S) == CHOOSE m \in S : \A e \in S : m <= e

SetMax(S) == CHOOSE m \in S : \A e \in S : e <= m

Range(s) == {s[i] : i \in DOMAIN s}

(***************************************************************************)
(* Geometries (shapely).  A geometry is a type name and a sequence of      *)
(* parts; a part is empty, an area (a rectangle ext with the rectangular   *)
(* holes strictly inside it), a line (a rectangle of zero width or zero    *)
(* height) or a point (both zero).                                         *)
(***************************************************************************)
Rect(x0, y0, x1, y1) == [x0 |-> x0, y0 |-> y0, x1 |-> x1, y1 |-> y1]

EmptyPart == [kind |-> "empty", ext |-> Rect(0, 0, 0, 0), holes |-> <<>>]

KindOf(r) ==
    IF r.x0 < r.x1 /\ r.y0 < r.y1 THEN "area"
    ELSE IF r.x0 = r.x1 /\ r.y0 = r.y1 THEN "point"
    ELSE "line"

Part(r, holes) == [kind |-> KindOf(r), ext |-> r, holes |-> holes]

Geom(type, parts) == [type |-> type, parts |-> parts]

Polygon(r, holes) == Geom("Polygon", <<Part(r, holes)>>)

EmptyPolygon == Geom("Polygon", <<>>)

\* geometry.is_empty
is_empty(g) == \A i \in DOMAIN g.parts : g.parts[i].kind = "empty"

\* geometry.geom_type, GeoSeries.type
geom_type(g) == g.type

\* MultiPolygon.geoms: the parts as Polygon geometries.
geoms(g) == [i \in DOMAIN g.parts |->
                IF g.parts[i].kind = "empty" THEN EmptyPolygon
                ELSE Geom("Polygon", <<g.parts[i]>>)]

NonEmptyParts(g) == SelectSeq(g.parts, LAMBDA p : p.kind # "empty")

(***************************************************************************)
(* representative_point (GEOS InteriorPointArea): per polygon, a scan line *)
(* midway between the vertex ordinates nearest to the envelope's centre,   *)
(* and on it the midpoint of the widest interior section; over the         *)
(* polygons of a geometry, the widest section of all (the first one on a   *)
(* tie).  Without a polygon, a vertex of the first line or the first      *)
(* point.  Coordinates of the point are doubled (x2, y2), so that          *)
(* midpoints of grid coordinates stay integers.                            *)
(***************************************************************************)
NoPoint == [empty |-> TRUE, x2 |-> 0, y2 |-> 0, w |-> 0]

ScanLineY2(p) ==
    LET ys == {p.ext.y0, p.ext.y1}
              \cup {p.holes[i].y0 : i \in DOMAIN p.holes}
              \cup {p.holes[i].y1 : i \in DOMAIN p.holes}
        centre2 == p.ext.y0 + p.ext.y1
        lo == SetMax({y \in ys : 2 * y <= centre2})
        hi == SetMin({y \in ys : 2 * y > centre2})
    IN  lo + hi

InteriorPointOfPart(p) ==
    LET y2 == ScanLineY2(p)
        crossed == {i \in DOMAIN p.holes : 2 * p.holes[i].y0 < y2 /\ y2 < 2 * p.holes[i].y1}
        lefts == {p.ext.x0} \cup {p.holes[i].x1 : i \in crossed}
        right(l) == SetMin({p.ext.x1} \cup {p.holes[i].x0 : i \in {j \in crossed : p.holes[j].x0 >= l}})
        widest == SetMax({right(l) - l : l \in lefts})
        left == SetMin({l \in lefts : right(l) - l = widest})
    IN  [empty |-> FALSE, x2 |-> left + right(left), y2 |-> y2, w |-> widest]

representative_point(g) ==
    LET areas == SelectSeq(g.parts, LAMBDA p : p.kind = "area")
        pts == [i \in DOMAIN areas |-> InteriorPointOfPart(areas[i])]
        widest == SetMax({pts[i].w : i \in DOMAIN pts})
        first == SetMin({i \in DOMAIN pts : pts[i].w = widest})
        others == NonEmptyParts(g)
    IN  IF areas # <<>> THEN pts[first]
        ELSE IF others # <<>>
             THEN [empty |-> FALSE, x2 |-> 2 * others[1].ext.x0, y2 |-> 2 * others[1].ext.y0, w |-> 0]
        ELSE NoPoint

\* point.within(geometry): the point lies in the interior of the geometry.
PointInPart(pt, p) ==
    /\ p.kind = "area"
    /\ 2 * p.ext.x0 < pt.x2 /\ pt.x2 < 2 * p.ext.x1
    /\ 2 * p.ext.y0 < pt.y2 /\ pt.y2 < 2 * p.ext.y1
    /\ \A i \in DOMAIN p.holes :
          ~ /\ 2 * p.holes[i].x0 <= pt.x2 /\ pt.x2 <= 2 * p.holes[i].x1
            /\ 2 * p.holes[i].y0 <= pt.y2 /\ pt.y2 <= 2 * p.holes[i].y1

within(pt, g) ==
    /\ ~pt.empty
    /\ \E i \in DOMAIN g.parts : PointInPart(pt, g.parts[i])

(***************************************************************************)
(* intersection: part by part, dropping what comes out empty; the type of  *)
(* the result follows the dimensions of what is left.                      *)
(***************************************************************************)
Max2(a, b) == IF a > b THEN a ELSE b

Min2(a, b) == IF a < b THEN a ELSE b

RectCap(a, b) == Rect(Max2(a.x0, b.x0), Max2(a.y0, b.y0), Min2(a.x1, b.x1), Min2(a.y1, b.y1))

StrictlyInside(h, r) == r.x0 < h.x0 /\ h.x1 < r.x1 /\ r.y0 < h.y0 /\ h.y1 < r.y1

Overlaps(h, r) == KindOf(RectCap(h, r)) = "area"

PartCap(p, l) ==
    LET r == RectCap(p.ext, l.ext)
    IN  IF p.kind = "empty" \/ l.kind = "empty" \/ r.x0 > r.x1 \/ r.y0 > r.y1
        THEN EmptyPart
        ELSE Part(r, IF KindOf(r) = "area"
                     THEN SelectSeq(p.holes, LAMBDA h : Overlaps(h, r))
                     ELSE <<>>)

\* The grid represents the intersection when every hole that meets it lies
\* strictly inside it.
Representable(g, land) ==
    \A i \in DOMAIN g.parts : \A j \in DOMAIN land.parts :
        LET r == RectCap(g.parts[i].ext, land.parts[j].ext)
        IN  \A k \in DOMAIN g.parts[i].holes :
                Overlaps(g.parts[i].holes[k], r) => StrictlyInside(g.parts[i].holes[k], r)

TypeOfParts(parts) ==
    LET kinds == {parts[i].kind : i \in DOMAIN parts}
    IN  IF parts = <<>> THEN "Polygon"
        ELSE IF kinds = {"area"} THEN (IF Len(parts) = 1 THEN "Polygon" ELSE "MultiPolygon")
        ELSE IF kinds = {"line"} THEN (IF Len(parts) = 1 THEN "LineString" ELSE "MultiLineString")
        ELSE IF kinds = {"point"} THEN (IF Len(parts) = 1 THEN "Point" ELSE "MultiPoint")
        ELSE "GeometryCollection"

intersection(g, land) ==
    LET caps == Flatten([i \in DOMAIN g.parts |->
                            [j \in DOMAIN land.parts |-> PartCap(g.parts[i], land.parts[j])]])
        left == SelectSeq(caps, LAMBDA p : p.kind # "empty")
    IN  Geom(TypeOfParts(left), left)

(***************************************************************************)
(* to_crs(epsg=3857): longitude scales linearly, latitude grows faster     *)
(* than linearly; both are strictly increasing.                            *)
(***************************************************************************)
MercX(x) == 2 * x

MercY(y) == y * y + 2 * y

RectToCrs(r) == Rect(MercX(r.x0), MercY(r.y0), MercX(r.x1), MercY(r.y1))

to_crs(g) ==
    Geom(g.type, [i \in DOMAIN g.parts |->
                    [kind |-> g.parts[i].kind,
                     ext |-> IF g.parts[i].kind = "empty" THEN g.parts[i].ext
                             ELSE RectToCrs(g.parts[i].ext),
                     holes |-> [k \in DOMAIN g.parts[i].holes |-> RectToCrs(g.parts[i].holes[k])]]])

(***************************************************************************)
(* total_bounds: the envelope of the non-empty geometries, nan when there  *)
(* is none.                                                                *)
(***************************************************************************)
total_bounds(gs) ==
    LET ps == Flatten([i \in DOMAIN gs |-> NonEmptyParts(gs[i])])
    IN  IF ps = <<>> THEN <<NaN, NaN, NaN, NaN>>
        ELSE << Num(SetMin({ps[i].ext.x0 : i \in DOMAIN ps}), 1),
                Num(SetMin({ps[i].ext.y0 : i \in DOMAIN ps}), 1),
                Num(SetMax({ps[i].ext.x1 : i \in DOMAIN ps}), 1),
                Num(SetMax({ps[i].ext.y1 : i \in DOMAIN ps}), 1) >>

(***************************************************************************)
(* centroid: of the parts of the highest dimension, weighted by area (the  *)
(* holes subtracted) or by length, or the mean of the points; the empty    *)
(* point, without coordinates, for an empty geometry.                      *)
(***************************************************************************)
RECURSIVE SumSeq(_)
SumSeq(s) == IF s = <<>> THEN 0 ELSE Head(s) + SumSeq(Tail(s))

RectWeight(r) ==
    IF KindOf(r) = "area" THEN (r.x1 - r.x0) * (r.y1 - r.y0)
    ELSE IF KindOf(r) = "line" THEN (r.x1 - r.x0) + (r.y1 - r.y0)
    ELSE 1

\* weight, and weight times twice the centre, of a part
PartWeight(p) == RectWeight(p.ext) - SumSeq([k \in DOMAIN p.holes |-> RectWeight(p.holes[k])])

PartMomentX(p) ==
    RectWeight(p.ext) * (p.ext.x0 + p.ext.x1)
    - SumSeq([k \in DOMAIN p.holes |-> RectWeight(p.holes[k]) * (p.holes[k].x0 + p.holes[k].x1)])

PartMomentY(p) ==
    RectWeight(p.ext) * (p.ext.y0 + p.ext.y1)
    - SumSeq([k \in DOMAIN p.holes |-> RectWeight(p.holes[k]) * (p.holes[k].y0 + p.holes[k].y1)])

centroid(g) ==
    LET ps == NonEmptyParts(g)
        kinds == {ps[i].kind : i \in DOMAIN ps}
        top == IF "area" \in kinds THEN "area" ELSE IF "line" \in kinds THEN "line" ELSE "point"
        qs == SelectSeq(ps, LAMBDA p : p.kind = top)
        w == SumSeq([i \in DOMAIN qs |-> PartWeight(qs[i])])
    IN  IF ps = <<>> THEN [x |-> NaN, y |-> NaN]
        ELSE [x |-> Num(SumSeq([i \in DOMAIN qs |-> PartMomentX(qs[i])]), 2 * w),
              y |-> Num(SumSeq([i \in DOMAIN qs |-> PartMomentY(qs[i])]), 2 * w)]

(***************************************************************************)
(* Strings are sequences of characters.  Two characters outside ASCII      *)
(* stand for all of them: "o_macron" (a Latin letter with a diacritic)     *)
(* and "cjk_ku" (an ideograph).                                            *)
(***************************************************************************)
Lowercase == {"a", "b", "c", "d", "e", "f", "g", "h", "i", "j", "k", "l", "m",
              "n", "o", "p", "q", "r", "s", "t", "u", "v", "w", "x", "y", "z"}

Uppercase == {"A", "B", "C", "D", "E", "F", "G", "H", "I", "J", "K", "L", "M",
              "N", "O", "P", "Q", "R", "S", "T", "U", "V", "W", "X", "Y", "Z"}

DigitChars == <<"0", "1", "2", "3", "4", "5", "6", "7", "8", "9">>

Alnum == Lowercase \cup Uppercase \cup Range(DigitChars)

\* \w of the regular expressions, on ASCII text
WordChar == Alnum \cup {"_"}

\* str(n) of a natural number
RECURSIVE StrOfNat(_)
StrOfNat(n) == IF n < 10 THEN <<DigitChars[n + 1]>>
               ELSE StrOfNat(n \div 10) \o <<DigitChars[(n % 10) + 1]>>

\* A value of a name column: a string, or a float nan (a missing cell).
Str(s) == [k |-> "str", s |-> s]

NanValue == [k |-> "nan", s |-> <<>>]

\* No such key in the row.
Absent == [k |-> "absent", s |-> <<>>]

\* str(v)
str(v) == IF v.k = "str" THEN v.s ELSE <<"n", "a", "n">>

\* row.get(key, default)
get(v, default) == IF v.k = "absent" THEN default ELSE v

\* unidecode: ASCII stays, anything else becomes its ASCII transliteration.
UnidecodeChar(c) ==
    IF c = "o_macron" THEN <<"o">>
    ELSE IF c = "cjk_ku" THEN <<"Q", "u", " ">>
    ELSE <<c>>

unidecode(s) == Flatten([i \in DOMAIN s |-> UnidecodeChar(s[i])])

\* (?i)\bward\b matches at position i of s
WardAt(s, i) ==
    /\ i + 3 <= Len(s)
    /\ s[i] \in {"w", "W"} /\ s[i + 1] \in {"a", "A"}
    /\ s[i + 2] \in {"r", "R"} /\ s[i + 3] \in {"d", "D"}
    /\ (i = 1 \/ s[i - 1] \notin WordChar)
    /\ (i + 3 = Len(s) \/ s[i + 4] \notin WordChar)

\* re.sub(r'(?i)\bward\b', '', s), from position i on
RECURSIVE SubWardFrom(_, _)
SubWardFrom(s, i) ==
    IF i > Len(s) THEN <<>>
    ELSE IF WardAt(s, i) THEN SubWardFrom(s, i + 4)
    ELSE <<s[i]>> \o SubWardFrom(s, i + 1)

SubWard(s) == SubWardFrom(s, 1)

\* re.sub(r'[^a-zA-Z0-9]', '', s)
SubNonAlnum(s) == SelectSeq(s, LAMBDA c : c \in Alnum)

\* The index key of a row of osmnx features: (element type, osmid); and how
\* an f-string prints the tuple.
StrOfIdx(idx) ==
    <<"(", "'">> \o idx[1] \o <<"'", ",", " ">> \o StrOfNat(idx[2]) \o <<")">>

PositionalId(idx) == <<"w", "a", "r", "d", "_">> \o StrOfIdx(idx)

\* lines 118-127: the label's text and the identifier of a row
NameJp(row) == get(row.name, Str(<<"U", "n", "k", "n", "o", "w", "n">>))

NameEn(row) ==
    LET name_jp == NameJp(row)
        name_en == get(row.name_en, Str(str(name_jp)))
    IN  IF name_en.k # "str" \/ name_en.s = <<>> THEN name_jp ELSE name_en

CleanId(row) ==
    LET clean_id == SubNonAlnum(SubWard(unidecode(str(NameEn(row)))))
    IN  IF clean_id = <<>> THEN PositionalId(row.idx) ELSE clean_id

(***************************************************************************)
(* What the acquisition collaborator can return.                           *)
(***************************************************************************)
Hole == Rect(1, 1, 2, 2)

\* city_geom: empty, a plain polygon, a polygon with a hole
Cities ==
    { EmptyPolygon,
      Polygon(Rect(0, 0, MaxCoord - 1, MaxCoord), <<>>),
      Polygon(Rect(0, 0, MaxCoord, MaxCoord), <<Hole>>) }

\* geometries of the features tagged admin_level=8
SquareSW == Polygon(Rect(0, 0, 1, 1), <<>>)

StripS == Polygon(Rect(1, 0, MaxCoord, 1), <<>>)

SquareNE == Polygon(Rect(MaxCoord - 1, MaxCoord - 1, MaxCoord, MaxCoord), <<>>)

Ring == Polygon(Rect(0, 0, MaxCoord, MaxCoord), <<Hole>>)

TwoSquares == Geom("MultiPolygon", <<Part(Rect(0, 2, 1, 3), <<>>), Part(Rect(1, 1, 2, 2), <<>>)>>)

WithEmptyPart == Geom("MultiPolygon", <<EmptyPart, Part(Rect(0, 1, 1, 2), <<>>)>>)

Node == Geom("Point", <<Part(Rect(1, 1, 1, 1), <<>>)>>)

\* the columns name and name:en of a feature
Kohoku == <<"K", "o_macron", "h", "o", "k", "u", " ", "W", "a", "r", "d">>

KohokuLower == <<"K", "o_macron", "h", "o", "k", "u", " ", "w", "a", "r", "d">>

Symbols == <<"!", "?">>

Markup == <<"A", "<", "b", "&", "\"", "c", "\"", ">">>

Swards == <<"s", "w", "a", "r", "d", "s", " ", "1", "2">>

Features ==
    { <<SquareSW, Str(Kohoku), Absent>>,
      <<SquareSW, Str(Symbols), NanValue>>,
      <<SquareSW, NanValue, Str(<<"W", "a", "r", "d">>)>>,
      <<StripS, Str(Markup), Str(<<>>)>>,
      <<SquareNE, Absent, Absent>>,
      <<Ring, Str(Swards), Absent>>,
      <<TwoSquares, Str(Kohoku), Str(<<"W", "a", "r", "d">>)>>,
      <<WithEmptyPart, Str(<<"cjk_ku">>), Str(KohokuLower)>>,
      <<Node, Absent, Absent>>,
      <<EmptyPolygon, Str(Kohoku), Absent>> }

Relation == <<"r", "e", "l", "a", "t", "i", "o", "n">>

\* The rows a fetch can return: the i-th has the index key (relation, 10 + i).
Rows(i) == {[idx |-> <<Relation, 10 + i>>, geometry |-> f[1], name |-> f[2], name_en |-> f[3]] :
                f \in Features}

RECURSIVE RowSeqsFrom(_, _)
RowSeqsFrom(i, len) ==
    IF i > len THEN {<<>>}
    ELSE {<<r>> \o rest : r \in Rows(i), rest \in RowSeqsFrom(i + 1, len)}

RowSeqs(len) == RowSeqsFrom(1, len)

\* the union of the land features
Lands ==
    { Polygon(Rect(0, 0, MaxCoord, MaxCoord), <<>>),
      Polygon(Rect(0, 0, 1, MaxCoord), <<>>),
      Polygon(Rect(MaxCoord - 1, 0, MaxCoord, MaxCoord), <<>>) }

\* where the land mask can raise: the fetch (58), the union (61), the intersection (64)
LandFailures == {"features_from_polygon", "union_all", "intersection"}

(***************************************************************************)
(* The state of generate_svg.                                              *)
(***************************************************************************)
VARIABLES
    pc,               \* the line the program is at; "exit" after sys.exit(1), "done" at the end
    city_geom,        \* line 18
    fetched,          \* what features_from_polygon returned at line 26
    wards_gdf,        \* the working collection, reassigned at lines 32, 35, 40, 64, 69
    land_geom,        \* line 61, <<>> while unbound
    land_error,       \* what raised inside the try of lines 57-64, "" when nothing did
    bbox,             \* minx, miny, maxx, maxy of line 70, <<>> before
    svg_height,       \* line 74
    svg_elements,     \* the path elements appended at line 129
    labels_elements,  \* the text elements appended at line 135
    it,               \* the row the loop of line 112 is at
    file              \* the document written at line 145, <<>> before

vars == <<pc, city_geom, fetched, wards_gdf, land_geom, land_error, bbox, svg_height,
          svg_elements, labels_elements, it, file>>

svg_width == 1000

minx == bbox[1]

miny == bbox[2]

maxx == bbox[3]

maxy == bbox[4]

Init ==
    /\ pc = "L17"
    /\ city_geom = EmptyPolygon
    /\ fetched = <<>>
    /\ wards_gdf = <<>>
    /\ land_geom = <<>>
    /\ land_error = ""
    /\ bbox = <<>>
    /\ svg_height = NaN
    /\ svg_elements = <<>>
    /\ labels_elements = <<>>
    /\ it = 1
    /\ file = <<>>

(***************************************************************************)
(* polygon_to_svg_path (lines 76-98).  A path string is the sequence of    *)
(* its words: a command with its two numbers, "Z", or the space that       *)
(* " ".join and " " + put between them.                                    *)
(***************************************************************************)
NoNum == [k |-> "num", v |-> 0]

Cmd(prefix, px, py) == [c |-> prefix, x |-> Fmt2f(px), y |-> Fmt2f(py)]

Z == [c |-> "Z", x |-> NoNum, y |-> NoNum]

SP == [c |-> " ", x |-> NoNum, y |-> NoNum]

\* " ".join(strings)
RECURSIVE Join(_)
Join(strings) ==
    IF strings = <<>> THEN <<>>
    ELSE IF Len(strings) = 1 THEN strings[1]
    ELSE strings[1] \o <<SP>> \o Join(Tail(strings))

\* lines 82-83
ProjectX(x) == FMul(FDiv(FSub(x, minx), FSub(maxx, minx)), Num(svg_width, 1))

\* the vertical axis not flipped
ProjectYNoFlip(y) == FMul(FDiv(FSub(y, miny), FSub(maxy, miny)), svg_height)

ProjectY(y) == FSub(svg_height, FMul(FDiv(FSub(y, miny), FSub(maxy, miny)), svg_height))

\* ring.coords: the closed ring of a rectangle
Coords(r) == << <<r.x0, r.y0>>, <<r.x1, r.y0>>, <<r.x1, r.y1>>, <<r.x0, r.y1>>, <<r.x0, r.y0>> >>

coords_to_path(coords) ==
    Join([i \in 1..(Len(coords) + 1) |->
            IF i <= Len(coords)
            THEN <<Cmd(IF i = 1 THEN "M" ELSE "L",
                       ProjectX(Num(coords[i][1], 1)), ProjectY(Num(coords[i][2], 1)))>>
            ELSE <<Z>>])

\* the holes left out
IgnoreInteriors(d, interiors) == d

\* lines 92-95, poly a non-empty Polygon
RECURSIVE AppendInteriors(_, _)
AppendInteriors(d, interiors) ==
    IF interiors = <<>> THEN d
    ELSE AppendInteriors(d \o <<SP>> \o coords_to_path(Coords(Head(interiors))), Tail(interiors))

RECURSIVE polygon_to_svg_path(_)
polygon_to_svg_path(poly) ==
    IF is_empty(poly) THEN <<>>
    ELSE IF geom_type(poly) = "Polygon"
         THEN AppendInteriors(coords_to_path(Coords(poly.parts[1].ext)), poly.parts[1].holes)
    ELSE IF geom_type(poly) = "MultiPolygon"
         THEN Join([i \in DOMAIN geoms(poly) |-> polygon_to_svg_path(geoms(poly)[i])])
    ELSE <<>>

(***************************************************************************)
(* generate_svg, statement by statement.                                   *)
(***************************************************************************)
\* lines 15-21: the boundary, or sys.exit(1) when the fetch raises
FetchCity ==
    /\ pc = "L17"
    /\ \/ \E c \in Cities : city_geom' = c /\ pc' = "L26"
       \/ city_geom' = city_geom /\ pc' = "exit"
    /\ UNCHANGED <<fetched, wards_gdf, land_geom, land_error, bbox, svg_height,
                   svg_elements, labels_elements, it, file>>

\* lines 24-29: the sub-areas, or sys.exit(1) when the fetch raises
FetchWards ==
    /\ pc = "L26"
    /\ \/ \E len \in 1..MaxWards : \E rows \in RowSeqs(len) :
            fetched' = rows /\ wards_gdf' = rows /\ pc' = "L32"
       \/ fetched' = fetched /\ wards_gdf' = wards_gdf /\ pc' = "exit"
    /\ UNCHANGED <<city_geom, land_geom, land_error, bbox, svg_height,
                   svg_elements, labels_elements, it, file>>

\* line 32
IsPolygonal(row) == geom_type(row.geometry) \in {"Polygon", "MultiPolygon"}

\* a test on the envelopes instead of the representative point
EnvelopeOverlaps(row) ==
    \E i \in DOMAIN row.geometry.parts : \E j \in DOMAIN city_geom.parts :
        /\ row.geometry.parts[i].kind = "area" /\ city_geom.parts[j].kind = "area"
        /\ Overlaps(row.geometry.parts[i].ext, city_geom.parts[j].ext)

\* lines 35 and 40
RepresentativePointWithin(row) == within(representative_point(row.geometry), city_geom)

FilterType ==
    /\ pc = "L32"
    /\ wards_gdf' = SelectSeq(wards_gdf, IsPolygonal)
    /\ pc' = "L35"
    /\ UNCHANGED <<city_geom, fetched, land_geom, land_error, bbox, svg_height,
                   svg_elements, labels_elements, it, file>>

FilterWithin ==
    /\ pc = "L35"
    /\ wards_gdf' = SelectSeq(wards_gdf, RepresentativePointWithin)
    /\ pc' = "L40"
    /\ UNCHANGED <<city_geom, fetched, land_geom, land_error, bbox, svg_height,
                   svg_elements, labels_elements, it, file>>

FilterWithinAgain ==
    /\ pc = "L40"
    /\ wards_gdf' = SelectSeq(wards_gdf, RepresentativePointWithin)
    /\ pc' = "L58"
    /\ UNCHANGED <<city_geom, fetched, land_geom, land_error, bbox, svg_height,
                   svg_elements, labels_elements, it, file>>

\* line 64: wards_gdf.geometry = wards_gdf.geometry.intersection(land_geom)
Clipped(rows, land) ==
    [i \in DOMAIN rows |-> [rows[i] EXCEPT !.geometry = intersection(rows[i].geometry, land)]]

\* the try block without its except: a failure ends the run
LandMaskUncaught ==
    /\ pc = "L58"
    /\ \/ \E land \in Lands :
            /\ \A i \in DOMAIN wards_gdf : Representable(wards_gdf[i].geometry, land)
            /\ land_geom' = land
            /\ wards_gdf' = Clipped(wards_gdf, land)
            /\ land_error' = land_error
            /\ pc' = "L69"
       \/ \E f \in LandFailures :
            /\ land_error' = f
            /\ IF f = "intersection" THEN land_geom' \in Lands ELSE land_geom' = land_geom
            /\ wards_gdf' = wards_gdf
            /\ pc' = "exit"
    /\ UNCHANGED <<city_geom, fetched, bbox, svg_height, svg_elements, labels_elements, it, file>>

\* lines 56-66: the try block; an exception anywhere in it is caught and printed
LandMask ==
    /\ pc = "L58"
    /\ \/ \E land \in Lands :
            /\ \A i \in DOMAIN wards_gdf : Representable(wards_gdf[i].geometry, land)
            /\ land_geom' = land
            /\ wards_gdf' = Clipped(wards_gdf, land)
            /\ land_error' = land_error
       \/ \E f \in LandFailures :
            /\ land_error' = f
            /\ IF f = "intersection" THEN land_geom' \in Lands ELSE land_geom' = land_geom
            /\ wards_gdf' = wards_gdf
    /\ pc' = "L69"
    /\ UNCHANGED <<city_geom, fetched, bbox, svg_height, svg_elements, labels_elements, it, file>>

\* line 69
ToCrs ==
    /\ pc = "L69"
    /\ wards_gdf' = [i \in DOMAIN wards_gdf |->
                        [wards_gdf[i] EXCEPT !.geometry = to_crs(wards_gdf[i].geometry)]]
    /\ pc' = "L70"
    /\ UNCHANGED <<city_geom, fetched, land_geom, land_error, bbox, svg_height,
                   svg_elements, labels_elements, it, file>>

\* the bounding box taken before the filter, the clip and the reprojection
BoundsOfFetched ==
    /\ pc = "L70"
    /\ bbox' = total_bounds([i \in DOMAIN fetched |-> fetched[i].geometry])
    /\ pc' = "L73"
    /\ UNCHANGED <<city_geom, fetched, wards_gdf, land_geom, land_error, svg_height,
                   svg_elements, labels_elements, it, file>>

\* line 70
Bounds ==
    /\ pc = "L70"
    /\ bbox' = total_bounds([i \in DOMAIN wards_gdf |-> wards_gdf[i].geometry])
    /\ pc' = "L73"
    /\ UNCHANGED <<city_geom, fetched, wards_gdf, land_geom, land_error, svg_height,
                   svg_elements, labels_elements, it, file>>

\* lines 73-74
Height ==
    /\ pc = "L73"
    /\ svg_height' = FMul(Num(svg_width, 1), FDiv(FSub(maxy, miny), FSub(maxx, minx)))
    /\ pc' = "L112"
    /\ UNCHANGED <<city_geom, fetched, wards_gdf, land_geom, land_error, bbox,
                   svg_elements, labels_elements, it, file>>

\* line 129: the path element of a row
PathElement(row) == [id |-> CleanId(row), d |-> polygon_to_svg_path(row.geometry)]

\* lines 132-135: the text element of a row
TextElement(row) ==
    LET c == centroid(row.geometry)
        cx == FMul(FDiv(FSub(c.x, minx), FSub(maxx, minx)), Num(svg_width, 1))
        cy == FSub(svg_height, FMul(FDiv(FSub(c.y, miny), FSub(maxy, miny)), svg_height))
    IN  [x |-> Fmt2f(cx), y |-> Fmt2f(cy), text |-> str(NameJp(row))]

\* lines 113-115: the rows the loop passes over
SkipNever(row) == FALSE

SkipRow(row) == is_empty(row.geometry)

\* lines 112-135: one turn of the loop
Loop ==
    /\ pc = "L112"
    /\ it <= Len(wards_gdf)
    /\ IF SkipRow(wards_gdf[it])
       THEN UNCHANGED <<svg_elements, labels_elements>>
       ELSE /\ svg_elements' = Append(svg_elements, PathElement(wards_gdf[it]))
            /\ labels_elements' = Append(labels_elements, TextElement(wards_gdf[it]))
    /\ it' = it + 1
    /\ UNCHANGED <<pc, city_geom, fetched, wards_gdf, land_geom, land_error, bbox, svg_height, file>>

\* lines 137-145: the groups are closed and the document is written
Write ==
    /\ pc = "L112"
    /\ it > Len(wards_gdf)
    /\ file' = <<[viewBox |-> <<Fmt2f(Num(svg_width, 1)), Fmt2f(svg_height)>>,
                  wards |-> svg_elements,
                  labels |-> labels_elements]>>
    /\ pc' = "done"
    /\ UNCHANGED <<city_geom, fetched, wards_gdf, land_geom, land_error, bbox, svg_height,
                   svg_elements, labels_elements, it>>

Next ==
    \/ FetchCity
    \/ FetchWards
    \/ FilterType
    \/ FilterWithin
    \/ FilterWithinAgain
    \/ LandMask
    \/ ToCrs
    \/ Bounds
    \/ Height
    \/ Loop
    \/ Write

Spec == Init /\ [][Next]_vars

(***************************************************************************)
(* Properties.                                                             *)
(***************************************************************************)
Geometries(rows) == [i \in DOMAIN rows |-> rows[i].geometry]

\* The point lies strictly within the boundary: inside one of its polygons,
\* not on its edge, and neither in nor on the edge of a hole.
StrictlyWithinBoundary(pt) ==
    /\ ~pt.empty
    /\ \E i \in DOMAIN city_geom.parts :
          LET p == city_geom.parts[i]
          IN  /\ p.kind = "area"
              /\ 2 * p.ext.x0 < pt.x2 /\ pt.x2 < 2 * p.ext.x1
              /\ 2 * p.ext.y0 < pt.y2 /\ pt.y2 < 2 * p.ext.y1
              /\ \A k \in DOMAIN p.holes :
                    \/ pt.x2 < 2 * p.holes[k].x0 \/ pt.x2 > 2 * p.holes[k].x1
                    \/ pt.y2 < 2 * p.holes[k].y0 \/ pt.y2 > 2 * p.holes[k].y1

\* A candidate the Spatial Filter is to keep.
Kept(row) ==
    /\ geom_type(row.geometry) \in {"Polygon", "MultiPolygon"}
    /\ StrictlyWithinBoundary(representative_point(row.geometry))

Filtered == SelectSeq(fetched, Kept)

AfterBounds == pc \in {"L73", "L112", "done"}

\* C1 (Spatial Filter): what leaves the filter stage is exactly the fetched
\* candidates that are polygons or multi-polygons and whose representative
\* point lies strictly within the boundary, in their original order; with an
\* empty boundary nothing is left; and the run ends in an error only in a
\* fetch, before any candidate exists, never in the filter.
C1_SpatialFilter ==
    /\ pc = "L58" => wards_gdf = Filtered
    /\ pc = "L58" /\ is_empty(city_geom) => wards_gdf = <<>>
    /\ pc = "exit" => fetched = <<>>

\* A candidate whose envelope overlaps the boundary's but whose representative
\* point lies on the boundary's edge has been dropped, and another one kept.
C1_Witness ==
    /\ pc = "L58"
    /\ Len(fetched) = 2 /\ Len(wards_gdf) = 1
    /\ \E i \in DOMAIN fetched :
          /\ EnvelopeOverlaps(fetched[i])
          /\ geom_type(fetched[i].geometry) = "Polygon"
          /\ representative_point(fetched[i].geometry).x2 = 2 * city_geom.parts[1].ext.x1
          /\ \A k \in DOMAIN wards_gdf : wards_gdf[k].idx # fetched[i].idx

\* C1, the empty boundary: candidates were fetched and all were rejected.
C1_WitnessEmptyBoundary ==
    pc = "L58" /\ is_empty(city_geom) /\ Len(fetched) = 2 /\ wards_gdf = <<>>

\* C2 (Land Mask Clipper) as stated: when the land mask fails, the geometries
\* that reach the bounding box and the serialization are identical to their
\* values after the filter.
C2_Original ==
    land_error # "" /\ pc \in {"L70", "L73", "L112", "done"}
        => Geometries(wards_gdf) = Geometries(Filtered)

\* C2 (Land Mask Clipper), amended: a failure of the land mask, wherever it
\* happens, does not end the run; the geometries leave the clip stage as the
\* filter left them, reach the bounding box and the serialization changed
\* only by the reprojection, and the document is written.  When the land mask
\* succeeds each geometry is replaced by its intersection with the mask.
C2_LandMaskFallback ==
    LET filtered == Filtered
    IN  /\ land_error # "" => pc # "exit"
        /\ land_error # "" /\ pc = "L69" => wards_gdf = filtered
        /\ land_error # "" /\ pc \in {"L70", "L73", "L112", "done"}
              => Geometries(wards_gdf) = [i \in DOMAIN filtered |-> to_crs(filtered[i].geometry)]
        /\ land_error = "" /\ pc = "L69"
              => Geometries(wards_gdf) =
                    [i \in DOMAIN filtered |-> intersection(filtered[i].geometry, land_geom)]
        /\ pc = "done" => file # <<>>

\* The land mask failed in the intersection, and the document holds the
\* unclipped sub-area.
C2_Witness ==
    /\ pc = "done" /\ land_error = "intersection"
    /\ file # <<>> /\ Len(file[1].wards) = 2

\* C3 (Document Assembler): the path elements and the text elements are each,
\* in order, those of the rows passed so far whose geometry after the clip is
\* not empty; a row with an empty geometry adds neither, so there are as many
\* of the one as of the other; the document written holds them, the k-th
\* shape and the k-th label being those of the k-th such row.
Passed == SelectSeq(SubSeq(wards_gdf, 1, it - 1), LAMBDA row : ~is_empty(row.geometry))

C3_AssemblerOrder ==
    LET passed == Passed
    IN  /\ pc \in {"L112", "done"} =>
              /\ Len(svg_elements) = Len(passed)
              /\ Len(labels_elements) = Len(passed)
        /\ pc = "done" =>
              /\ it = Len(wards_gdf) + 1
              /\ file[1].wards = svg_elements
              /\ file[1].labels = labels_elements
              /\ \A k \in DOMAIN passed :
                    /\ svg_elements[k].id = CleanId(passed[k])
                    /\ svg_elements[k].d = polygon_to_svg_path(passed[k].geometry)
                    /\ labels_elements[k].text = str(NameJp(passed[k]))

\* Two sub-areas, one of them empty after the clip: one shape, one label.
C3_Witness ==
    /\ pc = "done" /\ Len(wards_gdf) = 2
    /\ \E i \in DOMAIN wards_gdf : is_empty(wards_gdf[i].geometry)
    /\ Len(file[1].wards) = 1 /\ Len(file[1].labels) = 1

\* The words of a path string that are not spaces.
Commands(d) == SelectSeq(d, LAMBDA t : t.c # " ")

Count(d, c) == Len(SelectSeq(d, LAMBDA t : t.c = c))

\* The rings of a geometry: per part, the exterior ring and then the holes.
RingsOf(g) == Flatten([i \in DOMAIN g.parts |->
                  IF g.parts[i].kind = "area" THEN <<g.parts[i].ext>> \o g.parts[i].holes
                  ELSE <<>>])

\* The "M" words of a path string, in order.
Moves(d) == SelectSeq(d, LAMBDA t : t.c = "M")

\* Every subpath is one "M", then "L" only, then "Z".
ClosedSubpaths(cmds) ==
    /\ cmds # <<>> => cmds[1].c = "M" /\ cmds[Len(cmds)].c = "Z"
    /\ \A i \in DOMAIN cmds :
          /\ cmds[i].c = "M" => i < Len(cmds) /\ cmds[i + 1].c = "L"
          /\ cmds[i].c = "L" => i > 1 /\ cmds[i - 1].c \in {"M", "L"}
          /\ cmds[i].c = "Z" => i > 1 /\ cmds[i - 1].c = "L"
                                /\ (i < Len(cmds) => cmds[i + 1].c = "M")

PathStructure(g, d) ==
    LET rings == RingsOf(g)
        moves == Moves(d)
    IN  /\ Count(d, "Z") = Len(rings)
        /\ Len(moves) = Len(rings)
        /\ ClosedSubpaths(Commands(d))
        /\ \A j \in DOMAIN rings :
              /\ moves[j].x = Fmt2f(ProjectX(Num(rings[j].x0, 1)))
              /\ moves[j].y = Fmt2f(ProjectY(Num(rings[j].y0, 1)))

\* C4 (Path Serializer): the path of an empty geometry is the empty string;
\* the path emitted for a polygon with k holes has k + 1 closed subpaths (one
\* "M", then "L" only, then "Z"), the exterior ring first and the holes in
\* ring order; the path emitted for a multi-polygon has the subpaths of its
\* parts in part order, as many as there are rings over all parts.
C4_PathStructure ==
    pc \in {"L112", "done"} =>
        /\ \A i \in 1..(it - 1) :
              is_empty(wards_gdf[i].geometry) => polygon_to_svg_path(wards_gdf[i].geometry) = <<>>
        /\ LET passed == Passed
           IN  /\ Len(svg_elements) = Len(passed)
               /\ \A k \in DOMAIN passed :
                     geom_type(passed[k].geometry) \in {"Polygon", "MultiPolygon"}
                         => PathStructure(passed[k].geometry, svg_elements[k].d)

\* A polygon with a hole and a multi-polygon of two parts have been serialized.
C4_Witness ==
    /\ pc = "done" /\ Len(svg_elements) = 2
    /\ \E k \in DOMAIN Passed :
          /\ geom_type(Passed[k].geometry) = "Polygon"
          /\ Passed[k].geometry.parts[1].holes # <<>>
          /\ Count(svg_elements[k].d, "Z") = 2
    /\ \E k \in DOMAIN Passed :
          /\ geom_type(Passed[k].geometry) = "MultiPolygon"
          /\ Count(svg_elements[k].d, "Z") = 2

NonDegenerate ==
    /\ bbox # <<>>
    /\ \A i \in 1..4 : bbox[i].k = "num"
    /\ ~FLe(maxx, minx) /\ ~FLe(maxy, miny)

\* every vertex of the path elements lies on the canvas as printed
InCanvas(elements) ==
    LET height == Fmt2f(svg_height).v
    IN  \A k \in DOMAIN elements : \A j \in DOMAIN elements[k].d :
            LET t == elements[k].d[j]
            IN  t.c \in {"M", "L"} =>
                    /\ t.x.k = "num" /\ 0 <= t.x.v /\ t.x.v <= 100 * svg_width
                    /\ t.y.k = "num" /\ 0 <= t.y.v /\ t.y.v <= height

\* C5 (Canvas containment): the bounding box is assigned once, after the
\* filter and the clip, is that of the final collection and does not change
\* afterwards; every vertex of every emitted path lies in [0, width] x
\* [0, height] as printed.
C5_CanvasContainment ==
    /\ bbox # <<>> <=> AfterBounds
    /\ AfterBounds => bbox = total_bounds(Geometries(wards_gdf))
    /\ InCanvas(svg_elements)
    /\ file # <<>> => file[1].wards = svg_elements

\* A document with two clipped sub-areas whose vertices reach the four sides
\* of the canvas.
C5_Witness ==
    /\ pc = "done" /\ land_error = "" /\ Len(file[1].wards) = 2
    /\ \E k \in DOMAIN svg_elements : \E j \in DOMAIN svg_elements[k].d :
          svg_elements[k].d[j].c = "L" /\ svg_elements[k].d[j].x.v = 100 * svg_width
                                     /\ svg_elements[k].d[j].y.v = 0
    /\ \E k \in DOMAIN svg_elements : \E j \in DOMAIN svg_elements[k].d :
          svg_elements[k].d[j].c = "M" /\ svg_elements[k].d[j].x.v = 0
                                     /\ svg_elements[k].d[j].y = Fmt2f(svg_height)

\* C6 (Coordinate Normalizer): with a bounding box of nonzero width and
\* height, (minx, miny) goes to (0, height) and (maxx, maxy) to (width, 0),
\* height being width * (maxy - miny) / (maxx - minx); px does not decrease
\* with x and py does not increase with y; the labels are placed with the
\* same formula as the vertices.  (The box and the height are fixed once the
\* loop starts, so the first part is stated there; monotony is stated for
\* neighbouring grid coordinates and extends to all by transitivity.)
C6_AxisFlip ==
    /\ pc = "L112" /\ it = 1 /\ NonDegenerate =>
        /\ svg_height = Num(svg_width * (maxy.n - miny.n), maxx.n - minx.n)
        /\ ProjectX(minx) = Num(0, 1) /\ ProjectY(miny) = svg_height
        /\ ProjectX(maxx) = Num(svg_width, 1) /\ ProjectY(maxy) = Num(0, 1)
        /\ \A x \in 1..MaxCoord :
              FLe(ProjectX(Num(MercX(x - 1), 1)), ProjectX(Num(MercX(x), 1)))
        /\ \A y \in 1..MaxCoord :
              FLe(ProjectY(Num(MercY(y), 1)), ProjectY(Num(MercY(y - 1), 1)))
    /\ pc = "done" /\ NonDegenerate =>
        LET passed == Passed
        IN  \A k \in DOMAIN passed :
               LET c == centroid(passed[k].geometry)
               IN  /\ file[1].labels[k].x = Fmt2f(ProjectX(c.x))
                   /\ file[1].labels[k].y = Fmt2f(ProjectY(c.y))

\* A canvas that is not square, with a label on it.
C6_Witness ==
    /\ pc = "done" /\ NonDegenerate
    /\ svg_height # Num(svg_width, 1)
    /\ labels_elements # <<>>

IdChars == {" ", "'", "\"", "<", ">", "&"}

MarkupChars == {"<", ">", "&", "\""}

\* C7 (Identifier Sanitizer): every identifier written into a shape element
\* is a non-empty string without whitespace, quote or markup characters.
C7_IdentifierSafe ==
    \A k \in DOMAIN svg_elements :
        /\ svg_elements[k].id # <<>>
        /\ Range(svg_elements[k].id) \cap IdChars = {}

Degenerate == ~NonDegenerate

\* C8 (degenerate bounding box): when the final collection is empty or its
\* bounding box has zero width or zero height, no document is written.
C8_DegenerateIsFatal ==
    AfterBounds /\ Degenerate => file = <<>>

\* C9 (pre-escaped output): no label text and no identifier handed to the
\* writer holds an unescaped '<', '>', '&' or '"'.
C9_PreEscaped ==
    /\ \A k \in DOMAIN labels_elements : Range(labels_elements[k].text) \cap MarkupChars = {}
    /\ \A k \in DOMAIN svg_elements : Range(svg_elements[k].id) \cap MarkupChars = {}

\* C10 (no empty path element): every shape element emitted has path data
\* that is not the empty string.
C10_NoEmptyPath ==
    \A k \in DOMAIN svg_elements : svg_elements[k].d # <<>>

====
